---- MODULE Spec2Model ----
(***************************************************************************)
(* Model of the M24C64 / M24C64-D EEPROM driver (src/src/lib.rs).          *)
(*                                                                         *)
(* The driver frames every request as a two-byte offset prefix plus        *)
(* payload in the command buffer cmd_buf and hands it to the I2C           *)
(* transport.  The model records, for the last API call, the arguments     *)
(* (call), the transactions it put on the bus (bus) and what it returned   *)
(* (ret).                                                                  *)
(*                                                                         *)
(* Integer widths.  `page * 32` is u8 arithmetic; `address + bytes.len()`  *)
(* is usize arithmetic.  An overflow panics when the build has overflow    *)
(* checks (debug profile) and wraps otherwise (release profile); the       *)
(* profile is the variable overflow_checks, fixed at Init.  A usize is     *)
(* modelled for a 32-bit target as two 16-bit limbs [hi, lo], value        *)
(* hi * 2^16 + lo; the two-byte prefix is taken from lo exactly as the     *)
(* casts `(address >> 8) as u8` and `(address & 0xff) as u8` take it.      *)
(***************************************************************************)
EXTENDS Integers, Sequences, FiniteSets, TLC

VARIABLES
    family,           \* _device_family: the typestate marker
    config,           \* config: Config { address }
    cmd_buf,          \* cmd_buf: [u8; 34]
    overflow_checks,  \* build profile: TRUE = arithmetic overflow panics
    call,             \* the last API call and its arguments
    bus,              \* transactions the last call issued on the transport
    ret,              \* what the last call returned
    mem,              \* EEPROM main array behind the transport (MemSpec)
    rbuf,             \* caller's buffer after the last read (MemSpec)
    prev              \* the call before the last one (MemSpec)

vars == <<family, config, cmd_buf, overflow_checks, call, bus, ret, mem, rbuf, prev>>

----------------------------------------------------------------------------
(* Program constants *)

PAGE_SIZE == 32
PAGE_COUNT == 256
ADDRESS_LAST == PAGE_COUNT * PAGE_SIZE
CMD_BUF_LEN == 34
Memory == 10
Identification == 11
LOCK_ADDRESS == 1024
LOCK_DATA_BYTE == 2
MaxChipSelect == 7

\* u8 holds 0 .. U8 - 1; a usize is two limbs of 16 bits (a 32-bit target)
U8 == 2^8
LIMB == 2^16
USIZE_HI_MAX == LIMB - 1

----------------------------------------------------------------------------
(* Bounds of the inputs *)

\* buffer lengths 0 .. MaxSmallLen, besides the lengths around a page
MaxSmallLen == 2

----------------------------------------------------------------------------
(* usize and u8 arithmetic *)

Usize(h, l) == [hi |-> h, lo |-> l]

\* `n as usize` for a value below 2^16
AsUsize(n) == Usize(0, n)

\* did `address + n` overflow usize?
AddOverflows(address, n) ==
    address.hi + ((address.lo + n) \div LIMB) > USIZE_HI_MAX

\* `address + n` wrapped to the width of usize
WrappingAdd(address, n) ==
    Usize((address.hi + ((address.lo + n) \div LIMB)) % (USIZE_HI_MAX + 1),
          (address.lo + n) % LIMB)

\* `a > k` for k below 2^16
UsizeGt(a, k) == a.hi > 0 \/ a.lo > k

\* `address % 32`
Mod32(address) == address.lo % PAGE_SIZE

\* `(address >> 8) as u8`
HighByte(address) == (address.lo \div U8) % U8

\* `(address & 0xff) as u8`
LowByte(address) == address.lo % U8

\* faulty variant of ClearBit10: the bit is left as it is
KeepBit10(address) == address

\* `address &= !(1 << 10)`
ClearBit10(address) ==
    IF (address.lo \div 1024) % 2 = 1
    THEN Usize(address.hi, address.lo - 1024)
    ELSE address

RECURSIVE BitOr(_, _)
BitOr(a, b) ==
    IF a = 0 THEN b
    ELSE IF b = 0 THEN a
    ELSE (IF a % 2 = 1 \/ b % 2 = 1 THEN 1 ELSE 0) + 2 * BitOr(a \div 2, b \div 2)

----------------------------------------------------------------------------
(* Outcomes of a call: the command buffer afterwards, the transactions     *)
(* issued and the value returned.                                          *)

Outcome(buf, txs, r) == [cmd_buf |-> buf, bus |-> txs, ret |-> r]

WriteTx(addr, bytes, acked) ==
    [kind |-> "write", addr |-> addr, bytes |-> bytes, rdlen |-> 0, acked |-> acked]

WriteReadTx(addr, bytes, n, acked) ==
    [kind |-> "write_read", addr |-> addr, bytes |-> bytes, rdlen |-> n, acked |-> acked]

\* .map_err(Error::I2C)
I2cResult(acked) == IF acked THEN "Ok" ELSE "I2C"

\* faulty variant of WithPrefix: the prefix is written low byte first
WithPrefixLE(buf, address) ==
    [buf EXCEPT ![1] = LowByte(address), ![2] = HighByte(address)]

\* cmd_buf[0] = (address >> 8) as u8; cmd_buf[1] = (address & 0xff) as u8
WithPrefix(buf, address) ==
    [buf EXCEPT ![1] = HighByte(address), ![2] = LowByte(address)]

\* faulty variant of write_raw: the whole command buffer is sent, not the framed slice
write_raw_whole_buf(buf, dest, address, bytes, acked) ==
    LET b1 == [buf EXCEPT ![1] = HighByte(address), ![2] = LowByte(address)]
        n == Len(bytes)
    IN  IF n + 2 > CMD_BUF_LEN
        THEN Outcome(b1, <<>>, "panic")
        ELSE LET b2 == SubSeq(b1, 1, 2) \o bytes \o SubSeq(b1, n + 3, CMD_BUF_LEN)
             IN  Outcome(b2,
                         <<WriteTx(BitOr(config.address, dest), b2, acked)>>,
                         I2cResult(acked))

\* fn write_raw: the slice cmd_buf[2..len + 2] panics when len + 2 > 34
write_raw(buf, dest, address, bytes, acked) ==
    LET b1 == WithPrefix(buf, address)
        n == Len(bytes)
    IN  IF n + 2 > CMD_BUF_LEN
        THEN Outcome(b1, <<>>, "panic")
        ELSE LET b2 == SubSeq(b1, 1, 2) \o bytes \o SubSeq(b1, n + 3, CMD_BUF_LEN)
             IN  Outcome(b2,
                         <<WriteTx(BitOr(config.address, dest), SubSeq(b2, 1, n + 2), acked)>>,
                         I2cResult(acked))

\* fn read_raw
read_raw(buf, dest, address, n, acked) ==
    LET b1 == WithPrefix(buf, address)
    IN  Outcome(b1,
                <<WriteReadTx(BitOr(config.address, dest), SubSeq(b1, 1, 2), n, acked)>>,
                I2cResult(acked))

\* `(page * 32) as usize` with page: u8
PageOverflows(page) == page * PAGE_SIZE >= U8
PageAddress(page) == AsUsize((page * PAGE_SIZE) % U8)

\* fn write_page
write_page(buf, page, bytes, acked) ==
    IF PageOverflows(page) /\ overflow_checks
    THEN Outcome(buf, <<>>, "panic")
    ELSE write_raw(buf, Memory, PageAddress(page), bytes, acked)

\* faulty variant of WriteCrossesPage: the check compares against the array size, as read does
WriteCrossesPageArrayBound(address, n) ==
    UsizeGt(WrappingAdd(address, n), ADDRESS_LAST)

\* `start_idx + bytes.len() > 32` in fn write
WriteCrossesPage(address, n) == Mod32(address) + n > PAGE_SIZE

\* fn write
write(buf, address, bytes, acked) ==
    IF WriteCrossesPage(address, Len(bytes))
    THEN Outcome(buf, <<>>, "Address")
    ELSE write_raw(buf, Memory, address, bytes, acked)

\* fn read_page
read_page(buf, page, acked) ==
    IF PageOverflows(page) /\ overflow_checks
    THEN Outcome(buf, <<>>, "panic")
    ELSE read_raw(buf, Memory, PageAddress(page), PAGE_SIZE, acked)

\* fn read
read(buf, address, n, acked) ==
    IF AddOverflows(address, n) /\ overflow_checks
    THEN Outcome(buf, <<>>, "panic")
    ELSE IF UsizeGt(WrappingAdd(address, n), ADDRESS_LAST)
    THEN Outcome(buf, <<>>, "Address")
    ELSE read_raw(buf, Memory, address, n, acked)

\* fn write_id
write_id(buf, address, bytes, acked) ==
    IF AddOverflows(address, Len(bytes)) /\ overflow_checks
    THEN Outcome(buf, <<>>, "panic")
    ELSE IF UsizeGt(WrappingAdd(address, Len(bytes)), PAGE_SIZE)
    THEN Outcome(buf, <<>>, "Address")
    ELSE write_raw(buf, Identification, ClearBit10(address), bytes, acked)

\* fn write_id_page
write_id_page(buf, bytes, acked) ==
    write_raw(buf, Identification, AsUsize(0), bytes, acked)

\* fn lock_id_page
lock_id_page(buf, acked) ==
    write_raw(buf, Identification, AsUsize(LOCK_ADDRESS), <<LOCK_DATA_BYTE>>, acked)

\* fn read_id
read_id(buf, address, n, acked) ==
    IF AddOverflows(address, n) /\ overflow_checks
    THEN Outcome(buf, <<>>, "panic")
    ELSE IF UsizeGt(WrappingAdd(address, n), PAGE_SIZE)
    THEN Outcome(buf, <<>>, "Address")
    ELSE read_raw(buf, Identification, address, n, acked)

\* fn read_id_page
read_id_page(buf, acked) ==
    read_raw(buf, Identification, AsUsize(0), PAGE_SIZE, acked)

----------------------------------------------------------------------------
(* Inputs *)

ChipSelects == 0..MaxChipSelect

\* byte i (from 1) of fill pattern k: pattern 1 is 0xAA, 0xBB, 0xCC, ...;
\* pattern k > 1 repeats the byte k (pattern 2 repeats the lock data byte)
FillByte(k, i) == IF k = 1 THEN (170 + 17 * (i - 1)) % U8 ELSE k

Payload(n, k) == [i \in 1..n |-> FillByte(k, i)]

Lens == (0..MaxSmallLen) \cup {PAGE_SIZE, PAGE_SIZE + 1}

\* payload patterns of the handle's callers, and of the page round trip
Fills == {1}
PageFills == {1, 2}

USIZE_MAX == Usize(USIZE_HI_MAX, LIMB - 1)

\* main-array offsets: the first byte, the lock address, the last byte of the
\* array, the first offset past it, and the largest usize
Offsets ==
    {Usize(0, 0), Usize(0, LOCK_ADDRESS), Usize(0, ADDRESS_LAST - 1),
     Usize(0, ADDRESS_LAST), USIZE_MAX}

\* identification-page offsets: the first and the last byte of the page, the
\* lock address, and the largest usize
IdOffsets ==
    {Usize(0, 0), Usize(0, PAGE_SIZE - 1), Usize(0, LOCK_ADDRESS), USIZE_MAX}

Pages == {0, 7, 8, 255}

\* a call: its name, its offset or page argument, and its buffer argument as
\* the length and, for a write, the fill pattern (0 for a read buffer)
CallOf(op, address, page, n, k) ==
    [op |-> op, address |-> address, page |-> page, len |-> n, fill |-> k]

NoCall == CallOf("new", Usize(0, 0), 0, 0, 0)

\* the EEPROM main array as the bytes written so far; every other byte is
\* erased
ErasedMem == <<>>

----------------------------------------------------------------------------
(* The handle: construction and the API calls over an opaque transport that *)
(* either acknowledges a transaction or fails it.                           *)

\* fn new
Init ==
    /\ family = "NoIdentificationPage"
    /\ config \in [address : ChipSelects]
    /\ cmd_buf = [i \in 1..CMD_BUF_LEN |-> 0]
    /\ overflow_checks \in BOOLEAN
    /\ call = NoCall
    /\ bus = <<>>
    /\ ret = "None"
    /\ mem = ErasedMem
    /\ rbuf = <<>>
    /\ prev = NoCall

\* a panic ends the program: no call follows it
Alive == ret # "panic"

Finish(c, out) ==
    /\ call' = c
    /\ cmd_buf' = out.cmd_buf
    /\ bus' = out.bus
    /\ ret' = out.ret
    /\ UNCHANGED <<family, config, overflow_checks, mem, rbuf, prev>>

\* fn with_id_page
WithIdPage ==
    /\ Alive
    /\ family = "NoIdentificationPage"
    /\ family' = "IdentificationPage"
    /\ UNCHANGED <<config, cmd_buf, overflow_checks, call, bus, ret, mem, rbuf, prev>>

WritePage ==
    /\ Alive
    /\ \E page \in Pages, k \in Fills, acked \in BOOLEAN :
          Finish(CallOf("write_page", AsUsize(0), page, PAGE_SIZE, k),
                 write_page(cmd_buf, page, Payload(PAGE_SIZE, k), acked))

Write ==
    /\ Alive
    /\ \E address \in Offsets, n \in Lens, k \in Fills, acked \in BOOLEAN :
          Finish(CallOf("write", address, 0, n, k),
                 write(cmd_buf, address, Payload(n, k), acked))

ReadPage ==
    /\ Alive
    /\ \E page \in Pages, acked \in BOOLEAN :
          Finish(CallOf("read_page", AsUsize(0), page, PAGE_SIZE, 0),
                 read_page(cmd_buf, page, acked))

Read ==
    /\ Alive
    /\ \E address \in Offsets, n \in Lens, acked \in BOOLEAN :
          Finish(CallOf("read", address, 0, n, 0),
                 read(cmd_buf, address, n, acked))

WriteIdentification ==
    /\ Alive
    /\ family = "IdentificationPage"
    /\ \E address \in IdOffsets, n \in Lens, k \in Fills, acked \in BOOLEAN :
          Finish(CallOf("write_id", address, 0, n, k),
                 write_id(cmd_buf, address, Payload(n, k), acked))

WriteIdentificationPage ==
    /\ Alive
    /\ family = "IdentificationPage"
    /\ \E k \in Fills, acked \in BOOLEAN :
          Finish(CallOf("write_id_page", AsUsize(0), 0, PAGE_SIZE, k),
                 write_id_page(cmd_buf, Payload(PAGE_SIZE, k), acked))

LockIdentificationPage ==
    /\ Alive
    /\ family = "IdentificationPage"
    /\ \E acked \in BOOLEAN :
          Finish(CallOf("lock_id_page", AsUsize(0), 0, 0, 0),
                 lock_id_page(cmd_buf, acked))

ReadIdentification ==
    /\ Alive
    /\ family = "IdentificationPage"
    /\ \E address \in IdOffsets, n \in Lens, acked \in BOOLEAN :
          Finish(CallOf("read_id", address, 0, n, 0),
                 read_id(cmd_buf, address, n, acked))

ReadIdentificationPage ==
    /\ Alive
    /\ family = "IdentificationPage"
    /\ \E acked \in BOOLEAN :
          Finish(CallOf("read_id_page", AsUsize(0), 0, PAGE_SIZE, 0),
                 read_id_page(cmd_buf, acked))

Next ==
    \/ WithIdPage
    \/ WritePage
    \/ Write
    \/ ReadPage
    \/ Read
    \/ WriteIdentification
    \/ WriteIdentificationPage
    \/ LockIdentificationPage
    \/ ReadIdentification
    \/ ReadIdentificationPage

Spec == Init /\ [][Next]_vars

----------------------------------------------------------------------------
(* The page round trip: the same handle over a transport that is the EEPROM *)
(* main array.  The chip answers on the main array's device-select address, *)
(* takes the two prefix bytes as the byte address (13 bits decoded), stores *)
(* the payload rolling over inside the 32-byte page, and reads              *)
(* sequentially.  It acknowledges every transaction.                        *)

ByteAt(m, a) == IF a \in DOMAIN m THEN m[a] ELSE 255

TxAddress(tx) == (tx.bytes[1] * U8 + tx.bytes[2]) % ADDRESS_LAST

\* i2c.write on the EEPROM
DevStore(m, tx) ==
    IF tx.addr # BitOr(config.address, Memory) THEN m
    ELSE LET a == TxAddress(tx)
             base == a - (a % PAGE_SIZE)
             n == Len(tx.bytes) - 2
             cell(i) == base + (((a % PAGE_SIZE) + i - 1) % PAGE_SIZE)
             written == {cell(i) : i \in 1..n}
             latest(c) == CHOOSE i \in 1..n :
                              cell(i) = c /\ \A j \in 1..n : cell(j) = c => j <= i
         IN  [c \in DOMAIN m \cup written |->
                 IF c \in written THEN tx.bytes[latest(c) + 2] ELSE m[c]]

\* i2c.write_read on the EEPROM
DevLoad(m, tx) ==
    [i \in 1..tx.rdlen |-> ByteAt(m, (TxAddress(tx) + i - 1) % ADDRESS_LAST)]

MemFinish(c, out) ==
    /\ call' = c
    /\ prev' = call
    /\ cmd_buf' = out.cmd_buf
    /\ bus' = out.bus
    /\ ret' = out.ret
    /\ mem' = IF out.bus # <<>> /\ out.bus[1].kind = "write"
              THEN DevStore(mem, out.bus[1]) ELSE mem
    /\ rbuf' = IF out.bus # <<>> /\ out.bus[1].kind = "write_read"
               THEN DevLoad(mem, out.bus[1]) ELSE rbuf
    /\ UNCHANGED <<family, config, overflow_checks>>

MemWritePage ==
    /\ Alive
    /\ \E page \in Pages, k \in PageFills :
          MemFinish(CallOf("write_page", AsUsize(0), page, PAGE_SIZE, k),
                    write_page(cmd_buf, page, Payload(PAGE_SIZE, k), TRUE))

MemReadPage ==
    /\ Alive
    /\ \E page \in Pages :
          MemFinish(CallOf("read_page", AsUsize(0), page, PAGE_SIZE, 0),
                    read_page(cmd_buf, page, TRUE))

MemNext ==
    \/ MemWritePage
    \/ MemReadPage

MemSpec == Init /\ [][MemNext]_vars

----------------------------------------------------------------------------
(* Properties.  Each is stated on the call the state records (call), the    *)
(* transactions it issued (bus) and its result (ret).                       *)

IsIdOp == call.op \in {"write_id", "write_id_page", "lock_id_page", "read_id", "read_id_page"}

\* the payload the caller passed to the last write
CallPayload == Payload(call.len, call.fill)

\* the offset the caller passed is below 2^16 and below the bound given
OffsetBelow(k) == call.address.hi = 0 /\ call.address.lo < k

\* `offset + len > k` over the unbounded integers
SumExceeds(k) == call.address.hi > 0 \/ call.address.lo + call.len > k

\* the offset the two prefix bytes of a frame encode, big-endian
PrefixOffset(tx) == tx.bytes[1] * 256 + tx.bytes[2]

\* C1: for every page index, write_page issues one bus write and read_page
\* one combined write-then-read whose two-byte prefix is the big-endian
\* encoding of page * 32 (so distinct pages get distinct prefixes).
C1_PagePrefix ==
    call.op \in {"write_page", "read_page"} =>
        /\ Len(bus) = 1
        /\ bus[1].kind = (IF call.op = "write_page" THEN "write" ELSE "write_read")
        /\ Len(bus[1].bytes) >= 2
        /\ PrefixOffset(bus[1]) = call.page * 32

\* C2: no call to write, write_page, write_id or write_id_page issues a bus
\* write with the device-select address and the offset prefix (0x04, 0x00)
\* of the lock command.
C2_LockOnlyByLock ==
    call.op \in {"write_page", "write", "write_id", "write_id_page"} =>
        \A i \in 1..Len(bus) :
            ~ /\ bus[i].kind = "write"
              /\ bus[i].addr = BitOr(config.address, Identification)
              /\ bus[i].bytes[1] = 4
              /\ bus[i].bytes[2] = 0

\* C3: a write at an offset in [0, 8192) whose position in its page plus its
\* length exceeds 32 returns the address error and issues no transaction.
C3_PageCrossRejected ==
    (call.op = "write" /\ OffsetBelow(8192) /\ (call.address.lo % 32) + call.len > 32) =>
        (ret = "Address" /\ bus = <<>>)

C3_Witness ==
    /\ call.op = "write"
    /\ OffsetBelow(8192)
    /\ call.address.lo % 32 > 0
    /\ call.len <= 32
    /\ (call.address.lo % 32) + call.len > 32
    /\ ret = "Address"
    /\ cmd_buf[3] # 0

\* the frame of one bus write to the main array carrying the call's payload
\* after the two bytes hi, lo
OneMemoryWrite(hi, lo) ==
    /\ Len(bus) = 1
    /\ bus[1].kind = "write"
    /\ bus[1].addr = BitOr(config.address, 10)
    /\ bus[1].bytes = <<hi, lo>> \o CallPayload

\* C4 as stated: for all offset and len with (offset mod 32) + len <= 32 a
\* write issues exactly one bus write to chipSelect | memory selector whose
\* frame is the offset's big-endian encoding followed by the payload.
C4_WriteFrameAnyOffset ==
    (call.op = "write" /\ (call.address.lo % 32) + call.len <= 32) =>
        /\ call.address.hi = 0
        /\ OneMemoryWrite(call.address.lo \div 256, call.address.lo % 256)

\* C4 amended: the same for every offset below 2^16, the offsets two bytes
\* can encode.
C4_WriteFrame ==
    (call.op = "write" /\ OffsetBelow(65536) /\ (call.address.lo % 32) + call.len <= 32) =>
        OneMemoryWrite(call.address.lo \div 256, call.address.lo % 256)

C4_Witness ==
    /\ call.op = "write"
    /\ config.address = 5
    /\ call.address = Usize(0, 0)
    /\ Len(bus) = 1
    /\ bus[1].addr = 15
    /\ bus[1].bytes = <<0, 0, 170, 187>>

\* C5: a read returns the address error, with no transaction, exactly when
\* offset + len > 8192; otherwise it issues one combined write-then-read of
\* the two-byte big-endian offset and len bytes, and succeeds when the
\* transport does.
C5_ReadBound ==
    call.op = "read" =>
        IF SumExceeds(8192)
        THEN ret = "Address" /\ bus = <<>>
        ELSE /\ Len(bus) = 1
             /\ bus[1].kind = "write_read"
             /\ bus[1].bytes = <<call.address.lo \div 256, call.address.lo % 256>>
             /\ bus[1].rdlen = call.len
             /\ (bus[1].acked => ret = "Ok")

\* C6: over a transport that is the memory array, write_page(p, data)
\* followed by read_page(p, buf) both succeed and leave buf = data.
C6_PageRoundTrip ==
    /\ call.op = "write_page" => ret = "Ok"
    /\ (call.op = "read_page" /\ prev.op = "write_page" /\ prev.page = call.page) =>
          (ret = "Ok" /\ rbuf = Payload(32, prev.fill))

C8_IdBound ==
    call.op \in {"write_id", "read_id"} =>
        IF SumExceeds(32)
        THEN ret = "Address" /\ bus = <<>>
        ELSE /\ Len(bus) = 1
             /\ bus[1].kind = (IF call.op = "write_id" THEN "write" ELSE "write_read")
             /\ bus[1].addr = BitOr(config.address, 11)
             /\ PrefixOffset(bus[1]) = call.address.lo

\* C9: every bus write write_id issues carries an offset prefix with bit 10
\* clear, so never the control offset 0x0400 of the lock command.
C9_Bit10Clear ==
    call.op = "write_id" =>
        \A i \in 1..Len(bus) :
            /\ (PrefixOffset(bus[i]) \div 1024) % 2 = 0
            /\ PrefixOffset(bus[i]) # 1024

C9_Witness ==
    /\ call.op = "write_id"
    /\ (call.address.lo \div 1024) % 2 = 1
    /\ Len(bus) = 1
    /\ (PrefixOffset(bus[1]) \div 1024) % 2 = 0

\* C10: chipSelect | regionSelector is injective over chipSelect in 0..7 and
\* the two regions: the address a call used is not the address of the other
\* region on this handle, nor the address of the same region under any other
\* chipSelect.
C10_SelectInjective ==
    \A i \in 1..Len(bus) :
        LET mine == IF IsIdOp THEN 11 ELSE 10
            other == IF IsIdOp THEN 10 ELSE 11
        IN  /\ bus[i].addr = BitOr(config.address, mine)
            /\ bus[i].addr # BitOr(config.address, other)
            /\ \A c \in 0..7 : c # config.address => bus[i].addr # BitOr(c, mine)

====
